---- MODULE Spec2Model ----
(***************************************************************************)
(* A model of the generic multivariate Kalman filter of kalman_filter.rs   *)
(* and of the covariance helpers of kalman_filter_utils.rs.                *)
(*                                                                         *)
(* Numbers.  The program computes in f64, and so does the model: every     *)
(* literal, sum, difference, product and quotient is the exact result      *)
(* rounded to the nearest f64, ties to even.  An f64 is <<s, m, e>>, the   *)
(* number s * m * 2^e with s in {-1, 1} and m a natural number of exactly  *)
(* 53 binary digits; zero is <<0, <<>>, 0>>.  Natural numbers are          *)
(* sequences of digits in base 2^14, so that no intermediate value leaves  *)
(* the integers the model checker computes with.  Not modelled: the sign   *)
(* of zero, infinities, NaN and subnormal numbers; no computation of the   *)
(* model comes near the ends of the exponent range.                        *)
(*                                                                         *)
(* The same triples with m of any length are the exact real numbers the    *)
(* properties are stated in (operators X...).                              *)
(*                                                                         *)
(* Vectors are sequences of f64, matrices are sequences of rows.  The      *)
(* matrix operations are nalgebra's, with its order of operations:         *)
(* products accumulate left to right, try_inverse uses the closed forms    *)
(* nalgebra has for dimensions 1, 2 and 3.                                 *)
(***************************************************************************)
EXTENDS Integers, Sequences, FiniteSets

(* ------------------------------ bounds -------------------------------- *)

\* Number of calls made on one filter after its construction.
MaxOps == 2

(* ----------------------- natural numbers of any size ------------------ *)

\* A natural number is the sequence of its digits in base 2^14, least
\* significant first, without leading zero digits; zero is <<>>.
Base == 2^14

Limb(a, i) == IF i <= Len(a) THEN a[i] ELSE 0

RECURSIVE BTrim(_)
BTrim(a) == IF a = <<>> \/ a[Len(a)] # 0 THEN a ELSE BTrim(SubSeq(a, 1, Len(a) - 1))

RECURSIVE BFromInt(_)
BFromInt(n) == IF n = 0 THEN <<>> ELSE <<n % Base>> \o BFromInt(n \div Base)

RECURSIVE BAddFrom(_, _, _, _)
\* The digits from digit i on of a + b, c being the carry into digit i
BAddFrom(a, b, i, c) ==
    IF i > Len(a) /\ i > Len(b) THEN (IF c = 0 THEN <<>> ELSE <<c>>)
    ELSE <<(Limb(a, i) + Limb(b, i) + c) % Base>>
         \o BAddFrom(a, b, i + 1, (Limb(a, i) + Limb(b, i) + c) \div Base)

BAdd(a, b) == BAddFrom(a, b, 1, 0)

RECURSIVE BSubFrom(_, _, _, _)
\* The digits from digit i on of a - b, c being the borrow from digit i
BSubFrom(a, b, i, c) ==
    IF i > Len(a) THEN <<>>
    ELSE IF a[i] - Limb(b, i) - c < 0
         THEN <<a[i] - Limb(b, i) - c + Base>> \o BSubFrom(a, b, i + 1, 1)
         ELSE <<a[i] - Limb(b, i) - c>> \o BSubFrom(a, b, i + 1, 0)

\* a - b, for a >= b
BSub(a, b) == BTrim(BSubFrom(a, b, 1, 0))

RECURSIVE BCmpFrom(_, _, _)
BCmpFrom(a, b, i) ==
    IF i = 0 THEN 0
    ELSE IF a[i] < b[i] THEN -1
    ELSE IF a[i] > b[i] THEN 1
    ELSE BCmpFrom(a, b, i - 1)

\* -1, 0, 1 as a < b, a = b, a > b
BCmp(a, b) ==
    IF Len(a) < Len(b) THEN -1
    ELSE IF Len(a) > Len(b) THEN 1
    ELSE BCmpFrom(a, b, Len(a))

RECURSIVE BMulLimbFrom(_, _, _, _)
BMulLimbFrom(a, d, i, c) ==
    IF i > Len(a) THEN (IF c = 0 THEN <<>> ELSE <<c>>)
    ELSE <<(a[i] * d + c) % Base>> \o BMulLimbFrom(a, d, i + 1, (a[i] * d + c) \div Base)

\* a * d, for a digit d
BMulLimb(a, d) == IF d = 0 THEN <<>> ELSE BMulLimbFrom(a, d, 1, 0)

\* a * Base
BShift(a) == IF a = <<>> THEN <<>> ELSE <<0>> \o a

RECURSIVE BMulFrom(_, _, _)
\* a times the digits of b from digit j on
BMulFrom(a, b, j) ==
    IF j > Len(b) THEN <<>>
    ELSE BAdd(BMulLimb(a, b[j]), BShift(BMulFrom(a, b, j + 1)))

BMul(a, b) == IF a = <<>> THEN <<>> ELSE BMulFrom(a, b, 1)

Zeros(k) == [i \in 1..k |-> 0]

\* a * 2^k
BShl(a, k) ==
    IF a = <<>> THEN <<>>
    ELSE Zeros(k \div 14) \o BMulLimb(a, 2^(k % 14))

RECURSIVE BDivSmallFrom(_, _, _, _)
\* The digits i, ..., 1 of floor(a / d) for a digit d, r being the remainder
\* of the digits above i
BDivSmallFrom(a, d, i, r) ==
    IF i = 0 THEN <<>>
    ELSE BDivSmallFrom(a, d, i - 1, (r * Base + a[i]) % d) \o <<(r * Base + a[i]) \div d>>

\* floor(a / 2^k)
BShr(a, k) ==
    IF k \div 14 >= Len(a) THEN <<>>
    ELSE BTrim(BDivSmallFrom(SubSeq(a, (k \div 14) + 1, Len(a)), 2^(k % 14),
                             Len(a) - (k \div 14), 0))

\* a is not a multiple of 2^k
BLowBits(a, k) ==
    \/ \E i \in 1..(k \div 14) : Limb(a, i) # 0
    \/ Limb(a, (k \div 14) + 1) % (2^(k % 14)) # 0

BitsOf(x) == CHOOSE k \in 0..14 : (k = 0 /\ x = 0) \/ (k > 0 /\ 2^(k - 1) <= x /\ x < 2^k)

\* Number of binary digits of a
BitLen(a) == IF a = <<>> THEN 0 ELSE 14 * (Len(a) - 1) + BitsOf(a[Len(a)])

BOdd(a) == a # <<>> /\ a[1] % 2 = 1

RECURSIVE Fix(_, _, _)
\* The largest digit q <= guess with v * q <= r
Fix(v, r, guess) ==
    IF BCmp(BMulLimb(v, guess), r) > 0 THEN Fix(v, r, guess - 1) ELSE guess

\* The digit guessed from the two top digits of the remainder r
Guess(v, r) ==
    IF (Limb(r, Len(v) + 1) * Base + Limb(r, Len(v))) \div v[Len(v)] > Base - 1
    THEN Base - 1
    ELSE (Limb(r, Len(v) + 1) * Base + Limb(r, Len(v))) \div v[Len(v)]

RECURSIVE BDivLoop(_, _, _, _, _)
RECURSIVE BDivDigit(_, _, _, _, _, _)
\* Long division of n by v, digit by digit from digit i of n downwards; q and
\* r are the quotient and the remainder of the digits of n above i.  The top
\* digit of v is at least Base / 2, so that a guessed digit is at most 2 too
\* large.
BDivLoop(n, v, i, q, r) ==
    IF i = 0 THEN <<q, r>>
    ELSE IF r = <<>> /\ n[i] = 0 THEN BDivLoop(n, v, i - 1, <<0>> \o q, r)
    ELSE BDivDigit(n, v, i, q, <<n[i]>> \o r, Fix(v, <<n[i]>> \o r, Guess(v, <<n[i]>> \o r)))

\* The step of BDivLoop for digit i, with the digit d of the quotient
BDivDigit(n, v, i, q, r, d) ==
    BDivLoop(n, v, i - 1, <<d>> \o q, BSub(r, BMulLimb(v, d)))

\* <<floor(n / v), n % v>>
BDiv(n, v) == BDivLoop(n, v, Len(n), <<>>, <<>>)

(* ------------------------- exact real numbers ------------------------- *)

XZero == <<0, <<>>, 0>>

XNeg(a) == <<-a[1], a[2], a[3]>>

\* sa * ma * 2^e + sb * mb * 2^e for signs sa, sb and natural numbers ma, mb
XAddSigned(sa, ma, sb, mb, e) ==
    IF sa = sb THEN <<sa, BAdd(ma, mb), e>>
    ELSE IF BCmp(ma, mb) = 0 THEN XZero
    ELSE IF BCmp(ma, mb) > 0 THEN <<sa, BSub(ma, mb), e>>
    ELSE <<sb, BSub(mb, ma), e>>

\* a + b, with e the smaller of the two exponents
XAddAt(a, b, e) ==
    XAddSigned(a[1], BShl(a[2], a[3] - e), b[1], BShl(b[2], b[3] - e), e)

XAdd(a, b) ==
    IF a[1] = 0 THEN b
    ELSE IF b[1] = 0 THEN a
    ELSE XAddAt(a, b, IF a[3] < b[3] THEN a[3] ELSE b[3])

XSub(a, b) == XAdd(a, XNeg(b))

XMul(a, b) ==
    IF a[1] = 0 \/ b[1] = 0 THEN XZero
    ELSE <<a[1] * b[1], BMul(a[2], b[2]), a[3] + b[3]>>

\* -1, 0, 1 as a < 0, a = 0, a > 0
XSign(a) == a[1]

XAbs(a) == <<a[1] * a[1], a[2], a[3]>>

\* a = b as real numbers, whatever their representations
XEq(a, b) == XSign(XSub(a, b)) = 0

XLess(a, b) == XSign(XSub(a, b)) < 0

(* ---------------------------------- f64 ------------------------------- *)

\* Binary digits of the significand of an f64
MantissaBits == 53

\* s * r * 2^e with r of 53 binary digits, or of 54 when rounding up has
\* carried (r is 2^53 then)
Carried(s, r, e) ==
    IF BitLen(r) > MantissaBits THEN <<s, BShr(r, 1), e + 1>> ELSE <<s, r, e>>

\* q, or q + 1: the digits cut off are half a unit of q (half) or more
\* (half and sticky); ties go to the even one
Nearest(q, half, sticky) ==
    IF half /\ (sticky \/ BOdd(q)) THEN BAdd(q, <<1>>) ELSE q

\* x with the last k binary digits of its significand rounded away (k > 0),
\* t being the significand without its last k - 1 digits
RoundAway(x, k, t) ==
    Carried(x[1], Nearest(BShr(t, 1), BOdd(t), BLowBits(x[2], k - 1)), x[3] + k)

\* x with a significand shorter by k binary digits
RoundBy(x, k) ==
    IF k <= 0 THEN <<x[1], BShl(x[2], -k), x[3] + k>>
    ELSE RoundAway(x, k, BShr(x[2], k - 1))

\* The f64 nearest to the real number x, ties to even
Round(x) ==
    IF x[1] = 0 THEN XZero ELSE RoundBy(x, BitLen(x[2]) - MantissaBits)

FNeg(a) == XNeg(a)
FAbs(a) == XAbs(a)
FAdd(a, b) == Round(XAdd(a, b))
FSub(a, b) == Round(XSub(a, b))
FMul(a, b) == Round(XMul(a, b))

\* The quotient q and the remainder r of a division as one number: twice q,
\* and one more when r is not zero
Sticky(q, r) == BAdd(BShl(BTrim(q), 1), IF r = <<>> THEN <<>> ELSE <<1>>)

FDivOf(a, b, d) == Round(<<a[1] * b[1], Sticky(d[1], d[2]), a[3] - b[3] - 58>>)

\* a / b for b # 0: the quotient to 57 or 58 binary digits and one digit
\* more that tells whether the division left a remainder, rounded
FDiv(a, b) ==
    IF a[1] = 0 THEN XZero
    ELSE FDivOf(a, b, BDiv(BShl(a[2], 60), BShl(b[2], 3)))

FromInt(n) ==
    IF n = 0 THEN XZero
    ELSE Round(<<IF n < 0 THEN -1 ELSE 1, BFromInt(IF n < 0 THEN -n ELSE n), 0>>)

\* The f64 literal n/d
Rat(n, d) == FDiv(FromInt(n), FromInt(d))

Zero == FromInt(0)
One == FromInt(1)

is_zero(a) == a[1] = 0
(* ------------------------- nalgebra operations ------------------------ *)

Dim(M) == Len(M)

RECURSIVE Sum(_, _)
\* ((f[1] + f[2]) + ...) + f[k], for k >= 1
Sum(f, k) == IF k = 1 THEN f[1] ELSE FAdd(Sum(f, k - 1), f[k])

RECURSIVE Table(_, _)
\* <<f[1], ..., f[n]>>: the entries of f, each computed once
Table(f, n) == IF n = 0 THEN <<>> ELSE Table(f, n - 1) \o <<f[n]>>

VAdd(u, v) == Table([i \in 1..Len(u) |-> FAdd(u[i], v[i])], Len(u))

MAdd(A, B) ==
    Table([i \in 1..Dim(A) |->
              Table([j \in 1..Dim(A) |-> FAdd(A[i][j], B[i][j])], Dim(A))],
          Dim(A))

MMul(A, B) ==
    Table([i \in 1..Dim(A) |->
              Table([j \in 1..Dim(A) |->
                        Sum(Table([k \in 1..Dim(A) |-> FMul(A[i][k], B[k][j])],
                                  Dim(A)), Dim(A))],
                    Dim(A))],
          Dim(A))

MVec(A, v) ==
    Table([i \in 1..Dim(A) |->
              Sum(Table([k \in 1..Dim(A) |-> FMul(A[i][k], v[k])], Dim(A)),
                  Dim(A))],
          Dim(A))

\* Option<Matrix>: None is the empty tuple, Some(m) the tuple <<m>>
None == <<>>
Some(m) == <<m>>

\* N / determinant, entry by entry; None for a determinant of zero
Adjugate(N, determinant) ==
    IF is_zero(determinant) THEN None
    ELSE Some(Table([i \in 1..Dim(N) |->
                        Table([j \in 1..Dim(N) |-> FDiv(N[i][j], determinant)], Dim(N))],
                    Dim(N)))

\* a * b - c * d
Minor2(a, b, c, d) == FSub(FMul(a, b), FMul(c, d))

\* Matrix::try_inverse of a 1 x 1 matrix
try_inverse_1(M) == Adjugate(<< <<One>> >>, M[1][1])

\* Matrix::try_inverse of a 2 x 2 matrix
try_inverse_2(M) ==
    Adjugate(<< <<M[2][2], FNeg(M[1][2])>>,
                <<FNeg(M[2][1]), M[1][1]>> >>,
             Minor2(M[1][1], M[2][2], M[2][1], M[1][2]))

\* try_inverse of a 3 x 3 matrix, once its three minors are computed
try_inverse_3_minors(M, minor_m12_m23, minor_m11_m23, minor_m11_m22) ==
    Adjugate(<< <<minor_m12_m23,
                  Minor2(M[1][3], M[3][2], M[3][3], M[1][2]),
                  Minor2(M[1][2], M[2][3], M[2][2], M[1][3])>>,
                <<FNeg(minor_m11_m23),
                  Minor2(M[1][1], M[3][3], M[3][1], M[1][3]),
                  Minor2(M[1][3], M[2][1], M[2][3], M[1][1])>>,
                <<minor_m11_m22,
                  Minor2(M[1][2], M[3][1], M[3][2], M[1][1]),
                  Minor2(M[1][1], M[2][2], M[2][1], M[1][2])>> >>,
             FAdd(FSub(FMul(M[1][1], minor_m12_m23), FMul(M[1][2], minor_m11_m23)),
                  FMul(M[1][3], minor_m11_m22)))

\* Matrix::try_inverse of a 3 x 3 matrix
try_inverse_3(M) ==
    try_inverse_3_minors(M, Minor2(M[2][2], M[3][3], M[3][2], M[2][3]),
                            Minor2(M[2][1], M[3][3], M[3][1], M[2][3]),
                            Minor2(M[2][1], M[3][2], M[3][1], M[2][2]))

\* Matrix::try_inverse: None when the determinant it computes is zero
try_inverse(M) ==
    IF Dim(M) = 1 THEN try_inverse_1(M)
    ELSE IF Dim(M) = 2 THEN try_inverse_2(M)
    ELSE try_inverse_3(M)

from_diagonal(v) ==
    Table([i \in 1..Len(v) |->
              Table([j \in 1..Len(v) |-> IF i = j THEN v[i] ELSE Zero], Len(v))],
          Len(v))

from_diagonal_element(n, e) ==
    Table([i \in 1..n |-> Table([j \in 1..n |-> IF i = j THEN e ELSE Zero], n)], n)

(* ------------------------ kalman_filter_utils.rs ---------------------- *)

\* Mutant: the variances fill whole rows instead of the diagonal.
covariance_matrix_from_variance_vector_rows(variances) ==
    Table([i \in 1..Len(variances) |->
              Table([j \in 1..Len(variances) |-> variances[i]], Len(variances))],
          Len(variances))

covariance_matrix_from_variance_vector(variances) == from_diagonal(variances)

covariance_matrix_from_variance(SIZE, variance) == from_diagonal_element(SIZE, variance)

(* --------------------------- evolution functions ---------------------- *)

\* The evolution function of the test simple_1d: the value never changes.
evolution_func(state, covar, dt) == <<state, covar>>

\* state and covar after a drift of d
Drifted(state, covar, d) ==
    << VAdd(state, Table([i \in 1..Len(state) |-> d], Len(state))),
       MAdd(covar, from_diagonal_element(Len(state), d)) >>

\* A caller's evolution function that does depend on dt, a random walk with
\* drift: every variable moves at rate 10.0 and its variance grows at rate
\* 10.0.
drift_func(state, covar, dt) == Drifted(state, covar, FMul(FromInt(10), dt))

EvolutionFunctions == {"evolution_func", "drift_func"}

\* (self.evolution_function)(state, covar, dt)
CallEvolution(f, state, covar, dt) ==
    IF f = "evolution_func" THEN evolution_func(state, covar, dt)
    ELSE drift_func(state, covar, dt)

(* ------------------------------ KalmanFilter -------------------------- *)

\* The panic of .expect("Singular covariance matrices are not allowed.")
SingularCovariance == "SingularCovariance"

\* What a call of combine_measurements ends in: the panic, or the pair
\* (mean, covariance) it returns.
Panicked == <<>>
Returned(mean, covariance) == <<mean, covariance>>

\* A filter value: the three fields of the struct, and two observations of
\* the call in progress: how often the evolution function has been invoked,
\* and whether the call panicked.
new(current_state, current_covariance, evolution_function) ==
    [ current_state |-> current_state,
      current_covariance |-> current_covariance,
      evolution_function |-> evolution_function,
      evolution_calls |-> 0,
      outcome |-> "ok" ]

\* Mutant: each mean is weighted by its own covariance.
expect_own_weights(inverse_sum, mean_1, covariance_1, mean_2, covariance_2) ==
    IF inverse_sum = None THEN Panicked
    ELSE Returned(VAdd(MVec(MMul(covariance_1, inverse_sum[1]), mean_1),
                       MVec(MMul(covariance_2, inverse_sum[1]), mean_2)),
                  MMul(MMul(covariance_1, inverse_sum[1]), covariance_2))

\* combine_measurements from .expect(...) on: the panic when there is no
\* inverse, the weighted mean and the fused covariance otherwise
expect(inverse_sum, mean_1, covariance_1, mean_2, covariance_2) ==
    IF inverse_sum = None THEN Panicked
    ELSE Returned(VAdd(MVec(MMul(covariance_2, inverse_sum[1]), mean_1),
                       MVec(MMul(covariance_1, inverse_sum[1]), mean_2)),
                  MMul(MMul(covariance_1, inverse_sum[1]), covariance_2))

combine_measurements(mean_1, covariance_1, mean_2, covariance_2) ==
    expect(try_inverse(MAdd(covariance_1, covariance_2)),
           mean_1, covariance_1, mean_2, covariance_2)

\* (self.current_state, self.current_covariance) = pair
Assign(self, pair) ==
    [self EXCEPT !.current_state = pair[1], !.current_covariance = pair[2]]

\* The assignment of apply_measurement, which a panic of combine_measurements
\* prevents
AssignFused(self, fused) ==
    IF fused = Panicked THEN [self EXCEPT !.outcome = SingularCovariance]
    ELSE Assign(self, fused)

step_time(self, dt) ==
    [Assign(self, CallEvolution(self.evolution_function,
                                self.current_state, self.current_covariance, dt))
     EXCEPT !.evolution_calls = @ + 1]

\* Mutant: the measurement is applied after a time step of one unit.
apply_measurement_advancing(self, measurement, measurement_covariance) ==
    AssignFused(step_time(self, One),
                combine_measurements(measurement, measurement_covariance,
                                     step_time(self, One).current_state,
                                     step_time(self, One).current_covariance))

apply_measurement(self, measurement, measurement_covariance) ==
    AssignFused(self, combine_measurements(measurement, measurement_covariance,
                                           self.current_state, self.current_covariance))

\* Mutant: the measurement is applied before time is advanced.
step_with_measurement_fusion_first(self, dt, measurement, measurement_covariance) ==
    step_time(apply_measurement(self, measurement, measurement_covariance), dt)

\* A failed call leaves self as it was before the call
RollBack(self, after) ==
    IF after.outcome = SingularCovariance
    THEN [self EXCEPT !.outcome = SingularCovariance]
    ELSE after

\* Mutant: a failed fusion rolls the time step back.
step_with_measurement_atomic(self, dt, measurement, measurement_covariance) ==
    RollBack(self, apply_measurement(step_time(self, dt), measurement,
                                     measurement_covariance))

step_with_measurement(self, dt, measurement, measurement_covariance) ==
    apply_measurement(step_time(self, dt), measurement, measurement_covariance)

get_current_state(self) == self.current_state

get_current_covariance(self) == self.current_covariance

\* assert_float_eq of the tests: the assertion holds
assert_float_eq(expected, actual, margin) ==
    XLess(FAbs(FSub(expected, actual)), margin)
(* ------------------- properties of covariance matrices ---------------- *)
\* Stated of the real numbers the entries are, computed without rounding.

\* Indices 1..n without index i, in order
Skip(n, i) == [k \in 1..(n - 1) |-> IF k < i THEN k ELSE k + 1]

\* M without row i and column j
Minor(M, i, j) ==
    LET r == Skip(Dim(M), i)
        c == Skip(Dim(M), j)
    IN  [a \in 1..(Dim(M) - 1) |-> [b \in 1..(Dim(M) - 1) |-> M[r[a]][c[b]]]]

RECURSIVE XSum(_, _)
XSum(f, k) == IF k = 0 THEN XZero ELSE XAdd(XSum(f, k - 1), f[k])

RECURSIVE XDet(_)
\* The determinant of M, exactly
XDet(M) ==
    IF Dim(M) = 0 THEN One
    ELSE XSum([j \in 1..Dim(M) |->
                 LET t == XMul(M[1][j], XDet(Minor(M, 1, j)))
                 IN  IF j % 2 = 1 THEN t ELSE XNeg(t)], Dim(M))

\* B - A, exactly
XMSub(B, A) == [i \in 1..Dim(A) |-> [j \in 1..Dim(A) |-> XSub(B[i][j], A[i][j])]]

\* M + M^T, exactly: twice the symmetric part of M
SymPart(M) == [i \in 1..Dim(M) |-> [j \in 1..Dim(M) |-> XAdd(M[i][j], M[j][i])]]

Transpose(M) == [i \in 1..Dim(M) |-> [j \in 1..Dim(M) |-> M[j][i]]]

IsSymmetric(M) == \A i, j \in 1..Dim(M) : XEq(M[i][j], M[j][i])

RECURSIVE Ascending(_)
\* The elements of a finite set of integers, in ascending order
Ascending(S) ==
    IF S = {} THEN <<>>
    ELSE LET m == CHOOSE x \in S : \A y \in S : x <= y
         IN  <<m>> \o Ascending(S \ {m})

\* The rows and columns of M whose indices are in S
Principal(M, S) ==
    LET ix == Ascending(S)
    IN  [a \in 1..Len(ix) |-> [b \in 1..Len(ix) |-> M[ix[a]][ix[b]]]]

\* Symmetric with every principal minor >= 0
IsPSD(M) ==
    /\ IsSymmetric(M)
    /\ \A S \in SUBSET (1..Dim(M)) : XSign(XDet(Principal(M, S))) >= 0

\* Symmetric with every leading principal minor > 0
IsPD(M) ==
    /\ IsSymmetric(M)
    /\ \A k \in 1..Dim(M) : XSign(XDet(Principal(M, 1..k))) > 0

\* x^T M x >= 0 for every vector x
NonNegative(M) == IsPSD(SymPart(M))

\* A <= B in the Loewner order: x^T A x <= x^T B x for every vector x
LoewnerLeq(A, B) == NonNegative(XMSub(B, A))

(* -------------------------------- inputs ------------------------------ *)

\* STATE_FACTORS of the filters the model instantiates: the dimensions
\* nalgebra inverts in closed form.
Dims == {1, 2, 3}

\* i + 1 at (i, i), 1 elsewhere: correlated and positive-definite
Correlated(n) ==
    Table([i \in 1..n |->
              Table([j \in 1..n |-> IF i = j THEN FromInt(i + 1) ELSE One], n)], n)

\* Three variables the third of which is the sum of the other two: symmetric,
\* positive-semi-definite, of rank 2.  Every entry of the third row is the
\* sum of the two entries above it without rounding.
Twentieths == << <<7, 5, 12>>, <<5, 8, 13>>, <<12, 13, 25>> >>

Dependent ==
    Table([i \in 1..3 |-> Table([j \in 1..3 |-> Rat(Twentieths[i][j], 20)], 3)], 3)

\* 2^-48
Tiny == FDiv(One, FMul(FromInt(2^24), FromInt(2^24)))

Direction == <<1, 2, 1>>

\* Three variables all but proportional to Direction, with variances scaled by
\* s: symmetric and positive-definite, with smallest eigenvalue 2^-48.  Every
\* entry is computed without rounding.
NearlyDependent(s) ==
    Table([i \in 1..3 |->
              Table([j \in 1..3 |->
                        FAdd(FromInt(s * Direction[i] * Direction[j]),
                             IF i = j THEN Tiny ELSE Zero)], 3)], 3)

\* How a caller makes a covariance matrix: from one variance, from a vector
\* of variances, or entry by entry.
CovarianceInputs(n) ==
    IF n = 3 THEN { [kind |-> "matrix", arg |-> Dependent],
                    [kind |-> "matrix", arg |-> NearlyDependent(1)],
                    [kind |-> "matrix", arg |-> NearlyDependent(2)] }
    ELSE { [kind |-> "variance", arg |-> FromInt(2)],
           [kind |-> "variance", arg |-> FromInt(-2)],
           [kind |-> "variances", arg |-> Table([i \in 1..n |-> FromInt(i)], n)],
           [kind |-> "matrix", arg |-> Correlated(n)] }

Covariance(n, in) ==
    IF in.kind = "variance" THEN covariance_matrix_from_variance(n, in.arg)
    ELSE IF in.kind = "variances" THEN covariance_matrix_from_variance_vector(in.arg)
    ELSE in.arg

InitialStates(n) == { Table([i \in 1..n |-> Zero], n) }

InitialCovariances(n) ==
    IF n = 1 THEN { [kind |-> "variance", arg |-> One] }
    ELSE IF n = 2 THEN { [kind |-> "matrix", arg |-> Correlated(n)] }
    ELSE { [kind |-> "matrix", arg |-> Dependent],
           [kind |-> "matrix", arg |-> NearlyDependent(1)] }

Measurements(n) == { Table([i \in 1..n |-> FromInt(i + 1)], n) }

TimeSteps == { Rat(1, 10), One }

(* -------------------------------- state ------------------------------- *)

VARIABLES
    filter,      \* the KalmanFilter the caller owns
    prev,        \* the filter as it was when the last call began
    last,        \* the last call: its name and its arguments
    psd_inputs,  \* every covariance given so far was symmetric PSD
    failed,      \* a call made so far has panicked
    ops          \* number of calls made since new

vars == <<filter, prev, last, psd_inputs, failed, ops>>

NoArg == <<>>

Call(op, dt, measurement, cov_in, cov) ==
    [op |-> op, dt |-> dt, measurement |-> measurement,
     covariance_input |-> cov_in, measurement_covariance |-> cov]

STATE_FACTORS == Len(filter.current_state)

Init ==
    \E n \in Dims :
    \E s \in InitialStates(n), c \in InitialCovariances(n), f \in EvolutionFunctions :
        /\ filter = new(s, Covariance(n, c), f)
        /\ prev = filter
        /\ last = Call("new", NoArg, s, c, Covariance(n, c))
        /\ psd_inputs = IsPSD(Covariance(n, c))
        /\ failed = FALSE
        /\ ops = 0

\* The caller calls an operation on the filter; a panic of an earlier call
\* was caught by the caller.
Begin == [filter EXCEPT !.outcome = "ok"]

CanCall == ops < MaxOps

StepTime ==
    /\ CanCall
    /\ \E dt \in TimeSteps :
        /\ filter' = step_time(Begin, dt)
        /\ last' = Call("step_time", dt, NoArg, NoArg, NoArg)
    /\ prev' = Begin
    /\ ops' = ops + 1
    /\ UNCHANGED <<psd_inputs, failed>>

ApplyMeasurement ==
    /\ CanCall
    /\ \E m \in Measurements(STATE_FACTORS), c \in CovarianceInputs(STATE_FACTORS) :
        LET R == Covariance(STATE_FACTORS, c)
        IN  /\ filter' = apply_measurement(Begin, m, R)
            /\ last' = Call("apply_measurement", NoArg, m, c, R)
            /\ psd_inputs' = (psd_inputs /\ IsPSD(R))
    /\ failed' = (failed \/ filter'.outcome = SingularCovariance)
    /\ prev' = Begin
    /\ ops' = ops + 1

StepWithMeasurement ==
    /\ CanCall
    /\ \E dt \in TimeSteps :
       \E m \in Measurements(STATE_FACTORS), c \in CovarianceInputs(STATE_FACTORS) :
        LET R == Covariance(STATE_FACTORS, c)
        IN  /\ filter' = step_with_measurement(Begin, dt, m, R)
            /\ last' = Call("step_with_measurement", dt, m, c, R)
            /\ psd_inputs' = (psd_inputs /\ IsPSD(R))
    /\ failed' = (failed \/ filter'.outcome = SingularCovariance)
    /\ prev' = Begin
    /\ ops' = ops + 1

Next == StepTime \/ ApplyMeasurement \/ StepWithMeasurement

Spec == Init /\ [][Next]_vars

(* ------------------------- the call just made ------------------------- *)

Applied == last.op = "apply_measurement"
Stepped == last.op = "step_with_measurement"
Ok == filter.outcome = "ok"

\* The covariances the last call was to fuse add up to a singular matrix:
\* the sum the program computes has determinant zero
SingularSum(prior_covariance) ==
    XSign(XDet(MAdd(prior_covariance, last.measurement_covariance))) = 0

\* The filter as the evolution function leaves it from prev in the last call
Advanced ==
    CallEvolution(prev.evolution_function, prev.current_state,
                  prev.current_covariance, last.dt)

SameEstimate(a, b) ==
    /\ a.current_state = b.current_state
    /\ a.current_covariance = b.current_covariance

\* The margin of the assertions of the test simple_1d
margin == Rat(1, 1000000)

\* Vectors and matrices equal as assert_float_eq tests it, entry by entry
VNear(u, v) == \A i \in 1..Len(u) : assert_float_eq(u[i], v[i], margin)

XLeq(a, b) == XSign(XSub(a, b)) <= 0

MNear(A, B) == \A i, j \in 1..Dim(A) : assert_float_eq(A[i][j], B[i][j], margin)

Two == FromInt(2)

(* -------------------------------- claims ------------------------------ *)
\* C3, C5 and C9 state that numbers computed in two ways are the same; there
\* "the same" is read as assert_float_eq reads it in the tests of the
\* repository: equal within the margin 1e-6.  Every other equality is exact.

\* C1: apply_measurement with a measurement covariance whose sum with the
\* filter's covariance is singular ends in the SingularCovariance failure and
\* leaves the state and the covariance exactly as they were before the call.
C1_SingularLeavesFilterUnchanged ==
    (Applied /\ SingularSum(prev.current_covariance)) =>
        /\ filter.outcome = SingularCovariance
        /\ SameEstimate(filter, prev)

\* C2: step(dt, m, R) leaves the filter exactly as advance_time(dt) followed
\* by apply_measurement(m, R) leaves an identical filter, with the evolution
\* function invoked exactly once, before the fusion.
C2_StepIsAdvanceThenApply ==
    Stepped =>
        /\ filter = apply_measurement(step_time(prev, last.dt), last.measurement,
                                      last.measurement_covariance)
        /\ filter.evolution_calls = prev.evolution_calls + 1

C2_Witness ==
    /\ Stepped
    /\ Ok
    /\ filter.evolution_function = "drift_func"
    /\ filter.current_state # prev.current_state
    /\ filter.current_covariance # Advanced[2]

\* The filter holding the last measurement that applies the prior estimate
Swapped ==
    apply_measurement(new(last.measurement, last.measurement_covariance,
                          prev.evolution_function),
                      prev.current_state, prev.current_covariance)

\* The last call was apply_measurement with positive-definite prior and
\* measurement covariances
AppliedValid ==
    /\ Applied
    /\ IsPD(prev.current_covariance)
    /\ IsPD(last.measurement_covariance)

\* C3: fusion is commutative: for positive-definite covariances, a filter
\* holding (x, P) that applies (m, R) ends with the state and covariance of a
\* filter holding (m, R) that applies (x, P).
C3_FusionCommutes ==
    AppliedValid =>
        /\ Ok
        /\ Swapped.outcome = "ok"
        /\ VNear(filter.current_state, Swapped.current_state)
        /\ MNear(filter.current_covariance, Swapped.current_covariance)

\* C4: after apply_measurement with positive-definite prior and measurement
\* covariances the filter's covariance is below both in the Loewner order.
C4_FusionReducesUncertainty ==
    AppliedValid =>
        /\ Ok
        /\ LoewnerLeq(filter.current_covariance, prev.current_covariance)
        /\ LoewnerLeq(filter.current_covariance, last.measurement_covariance)

\* The measurement covariance of the last call is the filter's invertible
\* covariance
EqualCovariances ==
    /\ Applied
    /\ last.measurement_covariance = prev.current_covariance
    /\ XSign(XDet(prev.current_covariance)) # 0

\* (u + v) / 2
Mean(u, v) == Table([i \in 1..Len(u) |-> FDiv(FAdd(u[i], v[i]), Two)], Len(u))

\* M / 2
Half(M) ==
    Table([i \in 1..Dim(M) |-> Table([j \in 1..Dim(M) |-> FDiv(M[i][j], Two)], Dim(M))],
          Dim(M))

\* C5: when the measurement covariance equals the filter's invertible
\* covariance P, apply_measurement sets the state to the mean of the prior
\* state and the measurement and the covariance to P / 2.
C5_EqualCovariancesAverage ==
    EqualCovariances =>
        /\ Ok
        /\ VNear(Mean(prev.current_state, last.measurement), filter.current_state)
        /\ MNear(Half(prev.current_covariance), filter.current_covariance)

\* A step of a one-dimensional filter whose evolution function changes
\* nothing, the covariances not adding up to zero
IdentityStep ==
    /\ Stepped
    /\ STATE_FACTORS = 1
    /\ prev.evolution_function = "evolution_func"
    /\ ~SingularSum(prev.current_covariance)

\* The step was from state x0 and covariance P0 with measurement 2 and
\* measurement covariance 2
From(x0, P0) ==
    /\ prev.current_state = <<x0>>
    /\ prev.current_covariance = << <<P0>> >>
    /\ last.measurement = <<Two>>
    /\ last.measurement_covariance = << <<Two>> >>

Three == FromInt(3)

\* The filter holds (R*x + P*m)/(P+R) and P*R/(P+R) as real numbers
ExactlyFused(x, P, m, R, state, covariance) ==
    /\ XEq(XMul(state, XAdd(P, R)), XAdd(XMul(R, x), XMul(P, m)))
    /\ XEq(XMul(covariance, XAdd(P, R)), XMul(P, R))

\* C6: with the evolution function that changes nothing, a step of a
\* one-dimensional filter holding (x, P) with measurement (m, R) gives state
\* (R*x + P*m)/(P+R) and covariance P*R/(P+R) whatever dt is; from (0, 1) the
\* step with measurement 2 and covariance 2 gives (2/3, 2/3), and the same
\* step again gives (1, 1/2).
C6_OneDimensionalStep ==
    IdentityStep =>
        /\ Ok
        /\ ExactlyFused(prev.current_state[1], prev.current_covariance[1][1],
                        last.measurement[1], last.measurement_covariance[1][1],
                        filter.current_state[1], filter.current_covariance[1][1])
        /\ From(Zero, One) =>
              /\ XEq(XMul(Three, filter.current_state[1]), Two)
              /\ XEq(XMul(Three, filter.current_covariance[1][1]), Two)
        /\ From(Rat(2, 3), Rat(2, 3)) =>
              /\ filter.current_state[1] = One
              /\ XEq(XMul(Two, filter.current_covariance[1][1]), One)

\* |a - b| <= 1e-6 * bound, for real numbers a, b and bound
Within(a, b, bound) == XLeq(XAbs(XSub(a, b)), XMul(margin, bound))

\* The filter holds (R*x + P*m)/(P+R) within 1e-6 * (|R*x| + |P*m|)/|P+R|
\* and P*R/(P+R) within 1e-6 * |P*R/(P+R)|
NearlyFused(x, P, m, R, state, covariance) ==
    /\ Within(XMul(state, XAdd(P, R)), XAdd(XMul(R, x), XMul(P, m)),
              XAdd(XAbs(XMul(R, x)), XAbs(XMul(P, m))))
    /\ Within(XMul(covariance, XAdd(P, R)), XMul(P, R), XAbs(XMul(P, R)))

\* The filter holds state x1 and covariance P1 as assert_float_eq tests it
Gives(x1, P1) ==
    /\ assert_float_eq(x1, filter.current_state[1], margin)
    /\ assert_float_eq(P1, filter.current_covariance[1][1], margin)

\* C6, amended: the step gives the state (R*x + P*m)/(P+R) and the covariance
\* P*R/(P+R) up to the rounding of the f64 operations, which is within the
\* relative margin 1e-6 (of (|R*x| + |P*m|)/|P+R| for the state, of the
\* covariance itself for the covariance), whatever dt is; from (0, 1) the step
\* with measurement 2 and covariance 2 gives (2/3, 2/3) within 1e-6, and the
\* same step again gives (1, 1/2) within 1e-6.
C6_OneDimensionalStepWithinMargin ==
    IdentityStep =>
        /\ Ok
        /\ NearlyFused(prev.current_state[1], prev.current_covariance[1][1],
                       last.measurement[1], last.measurement_covariance[1][1],
                       filter.current_state[1], filter.current_covariance[1][1])
        /\ From(Zero, One) => Gives(Rat(2, 3), Rat(2, 3))
        /\ From(Rat(2, 3), Rat(2, 3)) => Gives(One, Rat(1, 2))

C6_Witness ==
    /\ IdentityStep
    /\ ops = 2
    /\ last.dt = Rat(1, 10)
    /\ From(Rat(2, 3), Rat(2, 3))
    /\ filter.current_state = <<One>>
    /\ filter.current_covariance = << <<Rat(1, 2)>> >>

\* C7: apply_measurement does not advance time: it does not invoke the
\* evolution function, it leaves the stored evolution function as it is, and
\* its result is the same whatever evolution function the filter holds.
C7_ApplyDoesNotAdvanceTime ==
    Applied =>
        /\ filter.evolution_calls = prev.evolution_calls
        /\ filter.evolution_function = prev.evolution_function
        /\ \A f \in EvolutionFunctions :
              [filter EXCEPT !.evolution_function = f] =
                  apply_measurement([prev EXCEPT !.evolution_function = f],
                                    last.measurement, last.measurement_covariance)

C7_Witness ==
    /\ Applied
    /\ Ok
    /\ filter.evolution_function = "drift_func"
    /\ filter.current_state # prev.current_state
    /\ ops = 2

\* C8: covariance_from_variances(v) has v[i] at (i, i) and 0 elsewhere, and
\* covariance_from_variance(s) has s at every (i, i) and 0 elsewhere.
C8_HelpersBuildDiagonal ==
    (last.op \in {"apply_measurement", "step_with_measurement"}) =>
        /\ (last.covariance_input.kind = "variances") =>
                /\ Dim(last.measurement_covariance) = Len(last.covariance_input.arg)
                /\ \A i, j \in 1..Len(last.covariance_input.arg) :
                        last.measurement_covariance[i][j] =
                            IF i = j THEN last.covariance_input.arg[i] ELSE Zero
        /\ (last.covariance_input.kind = "variance") =>
                /\ Dim(last.measurement_covariance) = STATE_FACTORS
                /\ \A i, j \in 1..STATE_FACTORS :
                        last.measurement_covariance[i][j] =
                            IF i = j THEN last.covariance_input.arg ELSE Zero

C8_Witness ==
    /\ Applied
    /\ STATE_FACTORS > 1
    /\ last.covariance_input.kind = "variances"
    /\ last.measurement_covariance[1][1] # last.measurement_covariance[2][2]
    /\ last.measurement_covariance[1][2] = Zero

\* C9: when the initial covariance and every measurement covariance given are
\* symmetric positive-semi-definite (the evolution functions here keep a
\* covariance so) and no call has failed, the filter's covariance is
\* symmetric and positive-semi-definite after every sequence of calls.
C9_CovarianceStaysPSD ==
    (psd_inputs /\ ~failed) =>
        /\ MNear(filter.current_covariance, Transpose(filter.current_covariance))
        /\ NonNegative(filter.current_covariance)

\* C10: when step fails because the time-advanced covariance and the
\* measurement covariance add up to a singular matrix, the filter holds the
\* state and covariance the evolution function produced for that dt, the
\* evolution function having been invoked once, and not the state and
\* covariance it held before the call.
C10_FailedStepKeepsTimeAdvance ==
    (Stepped /\ filter.outcome = SingularCovariance) =>
        /\ filter.current_state = Advanced[1]
        /\ filter.current_covariance = Advanced[2]
        /\ filter.evolution_calls = prev.evolution_calls + 1

C10_Witness ==
    /\ Stepped
    /\ SingularSum(Advanced[2])
    /\ filter.outcome = SingularCovariance
    /\ filter.current_state # prev.current_state
    /\ filter.current_covariance # prev.current_covariance

====
